---- MODULE Spec2Model ----
(***************************************************************************)
(* A model of the grpc-bidir tunnel: the controller's inbound HTTP handler *)
(* (kubernetesAPIHandler), the controller's agent session, the agent's     *)
(* tunnel tasks (receiver, outbound forwarder) and the agent's HTTP        *)
(* executor (executeRequest), joined by the two directions of one stream.  *)
(***************************************************************************)
EXTENDS Integers, Sequences, FiniteSets, TLC

\* ------------------------------------------------------------------ bounds

\* Number of inbound HTTP requests the clients issue.
NumReqs == 1
\* Number of non-empty reads one upstream response body is delivered in.
MaxReads == 2
\* Number of frames a peer that is not built from this code puts on the stream.
MaxForeign == 3
\* Pings a tunnel sends without reading a PingResponse.
MaxPings == 4
\* Pings and frames of other executors among the frames of one request.
MaxOther == 2
\* Values of one header of an inbound request.
MaxValues == 2

\* ------------------------------------------------------- program constants

\* buf := make([]byte, 10240)
BufSize == 10240
\* dataflow := make(chan *tunnel.ASEventWrapper, 20)
DataflowCap == 20
\* http.StatusBadGateway
StatusBadGateway == 502
\* tunnel.CurrentProtocolVersion
CurrentProtocolVersion == 10
\* Keepalive: pings that may go unanswered before the session is Faulted.
MissedPongs == 3
\* The protocolVersion of a hello that sets none.
NoProtocolVersion == 0
\* The protocolVersion of the hello of runKubernetesTunnel and of runTunnel.
HelloVersions == {CurrentProtocolVersion, NoProtocolVersion}
\* Bound of a session's outbound channels (spec 4.3: 20 pending outbound frames).
SendChanCap == 20

\* ------------------------------------------------------------- input sets

Reqs == 1 .. NumReqs
Ids == 1 .. NumReqs
Sessions == {"s1", "s2", "s3"}
\* The session the agent under study connects on.
OwnSessions == {"s1"}
Idents == {"A1", "A2"}
\* The identity an agent's verified certificate gives its session.
sessionIdentity(s) == IF s = "s3" THEN "A2" ELSE "A1"
\* Certificate common names of the callers, as dot-separated labels.
CommonNames == {<<"A1", "agents", "example">>, <<"A2", "agents", "example">>}
\* Status codes an upstream answers with.
Statuses == {200, 404}
\* Content-Length values an upstream reports (-1: unknown / chunked).
ContentLengths == {-1, 0, BufSize + 1}

NoId == 0
NoAgent == "none"

\* strings.Split(name, ".")[0]
firstLabel(name) == name[1]

\* []byte("")
emptyBytes == [off |-> 0, len |-> 0]
\* buf[:n], holding the upstream's bytes off .. off+n-1
Bytes(off, n) == [off |-> off, len |-> n]

VARIABLES
    agents,             \* controller: registry, identity -> sessions
    apiRequestCounter,  \* controller: requests counted per identity
    ulidNext,           \* controller: request ids minted so far
    handler,            \* controller: one inbound handler per request
    sstate,             \* controller: session state
    requests,           \* controller: session request table, id -> request
    inHTTPRequest,      \* controller: session channel of httpMessage
    inCancelRequest,    \* controller: session channel of cancelRequest
    c2a,                \* stream, controller to agent
    a2c,                \* stream, agent to controller
    apc,                \* agent: position of the tunnel
    dataflow,           \* agent: the dataflow channel
    cancelRegistry,     \* agent: ids with a registered cancel function
    exec,               \* agent: one executor per request id
    pings,              \* agent: pings sent since the last PingResponse read
    sa,                 \* agent: the shared serverContext, sa.f
    saLoaded,           \* history: saf of the refresher's last loadSecurity
    saReader,           \* agent: the request whose snapshot holds sa's RLock
    cpc,                \* agent: per request, where its dispatch and run are
    snap,               \* agent: per request, the serverContextFields copied
    atDispatch,         \* history: sa.f when the request was dispatched
    used,               \* agent: per request, the field values it has read
    cmain,              \* controller main: the statement it is at
    ctask,              \* controller main: the server goroutines started
    listeners,          \* controller: the ports listened on
    fatal,              \* history: the configuration step that failed
    amain,              \* agent main: the statement it is at
    dialed,             \* agent main: grpc.Dial has been called
    hpc,                \* headers: how far one request's headers have come
    hIn,                \* headers: the inbound request's r.Header
    hFrame,             \* headers: HttpRequest.Headers of the frame
    hOut,               \* headers: httpRequest.Header of the outbound request
    wHeader,            \* headers: w.Header() of the handler's response
    regReaders,         \* registry lock: the handlers holding agents.RLock()
    entry,              \* registry lock: per handler, where its entry is
    registered,         \* registry lock: the sessions in agents.m[agentname]
    stalled,            \* registry lock: the sessions not receiving requests
    inSend,             \* agent: per stream, the tasks inside stream.Send
    foreignSent         \* frames sent by an agent not built from this code

vars == <<agents, apiRequestCounter, ulidNext, handler, sstate, requests,
          inHTTPRequest, inCancelRequest, c2a, a2c, apc, dataflow,
          cancelRegistry, exec, pings, foreignSent,
          sa, saLoaded, saReader, cpc, snap, atDispatch, used,
          cmain, ctask, listeners, fatal, amain, dialed,
          hpc, hIn, hFrame, hOut, wHeader,
          regReaders, entry, registered, stalled, inSend>>

ctlVars == <<agents, apiRequestCounter, ulidNext, handler, sstate, requests,
             inHTTPRequest, inCancelRequest>>
credVars == <<sa, saLoaded, saReader, cpc, snap, atDispatch, used>>
mainVars == <<cmain, ctask, listeners, fatal, amain, dialed>>
headerVars == <<hpc, hIn, hFrame, hOut, wHeader>>
lockVars == <<regReaders, entry, registered, stalled>>
\* The state of locks and of calls in progress.
sendVars == <<inSend>>
syncVars == <<lockVars, sendVars>>
\* The state outside the tunnel's tasks.
processVars == <<credVars, mainVars, headerVars, syncVars>>
agentVars == <<apc, dataflow, cancelRegistry, exec, pings, processVars>>

\* The variables of the tunnel, left alone by the steps outside it.
tunnelVars == <<ctlVars, c2a, a2c, apc, dataflow, cancelRegistry, exec, pings,
                foreignSent>>

\* ----------------------------------------------------- credentials, headers

\* serverContextFields, in the order makeServerContextFields copies them.
Fields == <<"username", "serverURL", "serverCA", "clientCert", "token",
            "insecure">>

\* What loadSecurity can read: the credentials of the start, the same with
\* the token rotated, and new credentials altogether.
\* A field of serverContextFields, and the fields with one of them replaced.
Field(scf, name) == scf[CHOOSE i \in 1 .. Len(Fields) : Fields[i] = name]
WithField(scf, name, value) ==
    [i \in 1 .. Len(Fields) |-> IF Fields[i] = name THEN value ELSE scf[i]]
\* serverCA == nil, and clientCert == nil; a clientCert is its chain
\* Certificate, the leaf first.
NoCA == "nil"
NoClientCert == <<>>
\* The credentials of one kubeconfig, the client certificate without chain.
BaseCred(v) ==
    [i \in 1 .. Len(Fields) |-> IF Fields[i] = "clientCert" THEN <<v>> ELSE v]
OldCred == BaseCred("old")
RotatedCred == WithField(OldCred, "token", "new")
NewCred == BaseCred("new")
Creds == {OldCred, RotatedCred, NewCred}
\* The credentials of the start with insecure-skip-tls-verify flipped, and
\* those with another certificate after the same leaf.
InsecureCred == WithField(OldCred, "insecure", "new")
RechainedCred == WithField(InsecureCred, "clientCert", <<"old", "new">>)
\* What loadSecurity can read, field by field: a CA certificate or none, no
\* client certificate, one, or one with a chain after its leaf.
LoadableCreds ==
    {WithField(WithField(WithField(WithField(WithField(OldCred,
        "username", username), "token", token), "insecure", insecure),
        "serverCA", serverCA), "clientCert", clientCert) :
            username \in {"old", "new"}, token \in {"old", "new"},
            insecure \in {"old", "new"}, serverCA \in {NoCA, "old", "new"},
            clientCert \in {NoClientCert, <<"old">>, <<"new">>, <<"old", "new">>}}

\* The agent's main up to the dial: each step reads one input and ends the
\* process with log.Fatalf when it cannot.
AgentConfigSteps == <<"LoadConfig", "LoadX509KeyPair", "loadCert",
                      "loadSecurity">>

\* The inbound requests entering the handler while sessions come and go.
LockReqs == 1 .. NumReqs + 1

\* The requests dispatched while the credentials are refreshed.
CredIds == 1 .. NumReqs + 1

\* The header names and values of inbound requests, and the lists of values
\* one name can carry.
HeaderNames == {"Accept-Encoding", "Authorization", "Accept"}
HeaderValues == {"v1", "v2"}
ValueLists ==
    UNION {[1 .. n -> HeaderValues] : n \in 1 .. MaxValues}
\* http.Header: name -> values, the empty list for a name not in the map.
NoHeaders == [name \in HeaderNames |-> <<>>]
HeaderMaps == [HeaderNames -> ValueLists \cup {<<>>}]
\* c.token of the executor's credentials: none, or a token.
Tokens == {"", "token"}
\* Header maps of at most one value a name: the response headers set on w
\* before the handler runs, and the request headers of the response check.
SingleValueMaps == {h \in HeaderMaps : \A name \in HeaderNames : Len(h[name]) <= 1}
\* HttpResponse.Headers of a header frame: none, or one header.
ResponseHeaders ==
    {<<>>} \cup
    {<<[name |-> name, values |-> values]>> :
        name \in HeaderNames, values \in ValueLists}

\* ---------------------------------------------------------------- frames

HelloFrame(v) == [type |-> "hello", version |-> v]
\* tunnel.HttpResponse
HttpResponse(id, target, status, cl) ==
    [type |-> "resp", id |-> id, target |-> target, status |-> status, cl |-> cl]
\* tunnel.HttpChunkedResponse
HttpChunkedResponse(id, target, body) ==
    [type |-> "chunk", id |-> id, target |-> target, body |-> body]
\* tunnel.HttpRequest
HttpRequest(id, target) == [type |-> "req", id |-> id, target |-> target]
\* tunnel.HttpRequestCancel
CancelRequest(id) == [type |-> "cancel", id |-> id]
\* A frame with no arm populated.
NilFrame == [type |-> "nil"]
PingRequest == [type |-> "ping"]
PingResponse == [type |-> "pong"]

\* ------------------------------------------------------------------ Init

InitHandler ==
    [pc |-> "new", cn |-> <<>>, agentname |-> "", id |-> NoId, agent |-> NoAgent,
     seenHeader |-> FALSE, isChunked |-> FALSE, cleanClose |-> FALSE,
     status |-> <<>>, body |-> <<>>, closed |-> FALSE,
     ctxDone |-> FALSE, clientGone |-> FALSE, watch |-> "none", cancels |-> 0,
     exit |-> "none"]

InitExec ==
    [pc |-> "none", target |-> "", cancelled |-> FALSE, status |-> 0, cl |-> 0,
     delivered |-> 0, reads |-> 0, emitted |-> <<>>, upBody |-> <<>>,
     end |-> "none", sess |-> NoAgent]

Init ==
    /\ agents = [i \in Idents |-> {}]
    /\ apiRequestCounter = [i \in Idents |-> 0]
    /\ ulidNext = 0
    /\ handler = [r \in Reqs |-> InitHandler]
    /\ sstate = [s \in Sessions |-> "handshaking"]
    /\ requests = [s \in Sessions |-> <<>>]
    /\ inHTTPRequest = [s \in Sessions |-> <<>>]
    /\ inCancelRequest = [s \in Sessions |-> <<>>]
    /\ c2a = [s \in Sessions |-> <<>>]
    /\ a2c = [s \in Sessions |-> <<>>]
    /\ apc = [s \in Sessions |-> "init"]
    /\ dataflow = [s \in Sessions |-> <<>>]
    /\ cancelRegistry = [s \in Sessions |-> {}]
    /\ exec = [i \in Ids |-> InitExec]
    /\ pings = [s \in Sessions |-> 0]
    /\ foreignSent = 0
    /\ sa = OldCred
    /\ saLoaded = OldCred
    /\ saReader = NoId
    /\ cpc = [id \in CredIds |-> "idle"]
    /\ snap = [id \in CredIds |-> <<>>]
    /\ atDispatch = [id \in CredIds |-> <<>>]
    /\ used = [id \in CredIds |-> <<>>]
    /\ cmain = "LoadConfig"
    /\ ctask = [prometheus |-> "off", https |-> "off", grpc |-> "off"]
    /\ listeners = {}
    /\ fatal = [controller |-> "none", agent |-> "none"]
    /\ amain = 1
    /\ dialed = FALSE
    /\ hpc = "idle"
    /\ hIn = NoHeaders
    /\ hFrame = <<>>
    /\ hOut = NoHeaders
    /\ wHeader = NoHeaders
    /\ regReaders = {}
    /\ entry = [r \in LockReqs |-> [pc |-> "new", agent |-> NoAgent]]
    /\ registered = {}
    /\ stalled = {}
    /\ inSend = [s \in Sessions |-> {}]

\* ------------------------------------------- controller: inbound handler

\* The handler returns (exit records at which return statement): net/http
\* cancels the request's context when ServeHTTP returns, so the done signal the
\* watcher waits on has fired.
Return(h, exit) == [h EXCEPT !.pc = "done", !.ctxDone = TRUE, !.exit = exit]

\* w.WriteHeader(code)
WriteHeader(h, code) == [h EXCEPT !.status = Append(@, code)]

\* NoAgents without its WriteHeader.
NoAgentsSilent(h) == Return(h, "noagents")

\* No session is registered for the identity: 502 Bad Gateway, return.
NoAgents(h) == Return(WriteHeader(h, StatusBadGateway), "noagents")

\* Lookup over the sessions of the identity, registered or not.
LookupUnregistered(agentname) == {s \in Sessions : sessionIdentity(s) = agentname}

\* Lookup over the sessions of every identity.
LookupAll(agentname) == UNION {agents[i] : i \in Idents}

\* agents.m[agentname]: the sessions registered under the identity.
Lookup(agentname) == agents[agentname]

\* kubernetesAPIHandler, from its entry to the start of the response loop:
\* count the request, look the identity up, pick a session, mint the id,
\* hand the request to the session and spawn the disconnect watcher.
HandlerStart(r, cn) ==
    LET agentname == firstLabel(cn)
        agentList == Lookup(agentname)
    IN  /\ handler[r].pc = "new"
        /\ r > 1 => handler[r - 1].pc # "new"
        /\ apiRequestCounter' = [apiRequestCounter EXCEPT ![agentname] = @ + 1]
        /\ IF agentList = {}
           THEN /\ handler' = [handler EXCEPT ![r] =
                       NoAgents([@ EXCEPT !.cn = cn, !.agentname = agentname])]
                /\ UNCHANGED <<ulidNext, inHTTPRequest>>
           ELSE \E agent \in agentList :
                /\ Len(inHTTPRequest[agent]) < SendChanCap
                /\ ulidNext' = ulidNext + 1
                /\ inHTTPRequest' = [inHTTPRequest EXCEPT ![agent] =
                       Append(@, [id |-> ulidNext + 1, target |-> agentname,
                                  out |-> r])]
                /\ handler' = [handler EXCEPT ![r] =
                       [@ EXCEPT !.cn = cn, !.agentname = agentname,
                                 !.id = ulidNext + 1,
                                 !.agent = agent, !.pc = "wait",
                                 !.watch = "wait"]]
        /\ UNCHANGED <<agents, sstate, requests, inCancelRequest, c2a, a2c,
                       foreignSent>>
        /\ UNCHANGED agentVars

\* The client closes its connection while the handler is running: the
\* request's done signal fires.
ClientDisconnect(r) ==
    /\ handler[r].pc = "wait"
    /\ ~handler[r].ctxDone
    /\ handler' = [handler EXCEPT ![r].ctxDone = TRUE, ![r].clientGone = TRUE]
    /\ UNCHANGED <<agents, apiRequestCounter, ulidNext, sstate, requests,
                   inHTTPRequest, inCancelRequest, c2a, a2c, foreignSent>>
    /\ UNCHANGED agentVars

\* The watcher goroutine: <-notify; if !cleanClose, send the cancelRequest.
Watcher(r) ==
    LET h == handler[r]
    IN  /\ h.watch = "wait"
        /\ h.ctxDone
        /\ IF ~h.cleanClose
           THEN /\ Len(inCancelRequest[h.agent]) < SendChanCap
                /\ inCancelRequest' = [inCancelRequest EXCEPT ![h.agent] =
                       Append(@, [id |-> h.id])]
                /\ handler' = [handler EXCEPT ![r].watch = "done",
                                              ![r].cancels = @ + 1]
           ELSE /\ handler' = [handler EXCEPT ![r].watch = "done"]
                /\ UNCHANGED inCancelRequest
        /\ UNCHANGED <<agents, apiRequestCounter, ulidNext, sstate, requests,
                       inHTTPRequest, c2a, a2c, foreignSent>>
        /\ UNCHANGED agentVars

\* The arm of the response loop for an HttpResponse frame.
OnHttpResponse(h, resp) ==
    LET h1 == WriteHeader([h EXCEPT !.seenHeader = TRUE,
                                    !.isChunked = (resp.cl < 0)],
                          resp.status)
    IN  IF resp.cl = 0
        THEN Return([h1 EXCEPT !.cleanClose = TRUE], "zerolength")
        ELSE h1

\* OnHttpChunkedResponse without its seenHeader test.
OnHttpChunkedResponseUnchecked(h, resp) ==
    IF resp.body.len = 0
    THEN Return([h EXCEPT !.cleanClose = TRUE], "emptychunk")
    ELSE [h EXCEPT !.body = Append(@, resp.body)]

\* The arm of the response loop for an HttpChunkedResponse frame.
OnHttpChunkedResponse(h, resp) ==
    IF ~h.seenHeader
    THEN Return(WriteHeader(h, StatusBadGateway), "noheader")
    ELSE IF resp.body.len = 0
         THEN Return([h EXCEPT !.cleanClose = TRUE], "emptychunk")
         ELSE [h EXCEPT !.body = Append(@, resp.body)]

\* One iteration of the response loop on a frame received from message.out.
HandleFrame(h, in) ==
    CASE in.type = "resp" -> OnHttpResponse(h, in)
      [] in.type = "chunk" -> OnHttpChunkedResponse(h, in)
      [] OTHER -> h

\* HandleClosed that goes on waiting.
HandleClosedIgnored(h) == h

\* HandleClosed answering 502 whether or not a header was seen.
HandleClosedAlways502(h) ==
    Return([WriteHeader(h, StatusBadGateway) EXCEPT !.cleanClose = TRUE], "closed")

\* One iteration of the response loop when message.out is closed.
HandleClosed(h) ==
    Return([(IF ~h.seenHeader THEN WriteHeader(h, StatusBadGateway) ELSE h)
            EXCEPT !.cleanClose = TRUE], "closed")

HandlerClosed(r) ==
    /\ handler[r].pc = "wait"
    /\ handler[r].closed
    /\ handler' = [handler EXCEPT ![r] = HandleClosed(@)]
    /\ UNCHANGED <<agents, apiRequestCounter, ulidNext, sstate, requests,
                   inHTTPRequest, inCancelRequest, c2a, a2c, foreignSent>>
    /\ UNCHANGED agentVars

\* --------------------------------------------- controller: agent session

\* Without that removes nothing.
WithoutNothing(f, k) == f

Without(f, k) == [x \in DOMAIN f \ {k} |-> f[x]]

\* The session takes a request off inHTTPRequest, records its response sink
\* in the request table and writes the HttpRequest frame to the stream.
SessionSendRequest(s) ==
    /\ sstate[s] = "live"
    /\ inHTTPRequest[s] # <<>>
    /\ LET m == Head(inHTTPRequest[s])
       IN  /\ requests' = [requests EXCEPT ![s] = (m.id :> m.out) @@ @]
           /\ c2a' = [c2a EXCEPT ![s] = Append(@, HttpRequest(m.id, m.target))]
    /\ inHTTPRequest' = [inHTTPRequest EXCEPT ![s] = Tail(@)]
    /\ UNCHANGED <<agents, apiRequestCounter, ulidNext, handler, sstate,
                   inCancelRequest, a2c, foreignSent>>
    /\ UNCHANGED agentVars

\* The session takes a cancelRequest off inCancelRequest and writes the
\* Cancel frame to the stream.
SessionSendCancel(s) ==
    /\ sstate[s] = "live"
    /\ inCancelRequest[s] # <<>>
    /\ c2a' = [c2a EXCEPT ![s] = Append(@, CancelRequest(Head(inCancelRequest[s]).id))]
    /\ inCancelRequest' = [inCancelRequest EXCEPT ![s] = Tail(@)]
    /\ UNCHANGED <<agents, apiRequestCounter, ulidNext, handler, sstate,
                   requests, inHTTPRequest, a2c, foreignSent>>
    /\ UNCHANGED agentVars

\* The session's receiver reads one frame from the stream.  The first frame
\* must be an AgentHello of the controller's protocol version: the session is
\* then registered.  A response frame is handed to the sink its id names (an
\* unbuffered channel: the handler receives it) and is dropped when the id is
\* not in the request table; the terminating empty chunk removes the id and
\* closes the sink.
SessionRecv(s) ==
    /\ sstate[s] # "closed"
    /\ a2c[s] # <<>>
    /\ a2c' = [a2c EXCEPT ![s] = Tail(@)]
    /\ LET in == Head(a2c[s])
       IN  IF sstate[s] = "handshaking"
           THEN /\ IF in.type = "hello" /\ in.version = CurrentProtocolVersion
                   THEN /\ sstate' = [sstate EXCEPT ![s] = "live"]
                        /\ agents' = [agents EXCEPT ![sessionIdentity(s)] = @ \cup {s}]
                   ELSE /\ sstate' = [sstate EXCEPT ![s] = "closed"]
                        /\ UNCHANGED agents
                /\ UNCHANGED <<handler, requests>>
           ELSE /\ UNCHANGED <<sstate, agents>>
                /\ IF in.type \in {"resp", "chunk"} /\ in.id \in DOMAIN requests[s]
                   THEN LET r == requests[s][in.id]
                        IN  /\ handler[r].pc = "wait"
                            /\ ~handler[r].closed
                            /\ IF in.type = "chunk" /\ in.body.len = 0
                               THEN /\ handler' = [handler EXCEPT ![r] =
                                           [HandleFrame(@, in) EXCEPT !.closed = TRUE]]
                                    /\ requests' = [requests EXCEPT ![s] = Without(@, in.id)]
                               ELSE /\ handler' = [handler EXCEPT ![r] = HandleFrame(@, in)]
                                    /\ UNCHANGED requests
                   ELSE UNCHANGED <<handler, requests>>
    /\ UNCHANGED <<apiRequestCounter, ulidNext, inHTTPRequest, inCancelRequest,
                   c2a, foreignSent>>
    /\ UNCHANGED agentVars

\* The sinks a closing session closes: those of the requests enqueued into
\* it (Enqueue registers the request), sent to the agent already or not.
OpenSinks(s) ==
    {r \in Reqs :
        \/ handler[r].id \in DOMAIN requests[s]
        \/ \E i \in 1 .. Len(inHTTPRequest[s]) : inHTTPRequest[s][i].out = r}

\* The stream fails or is closed: the session is unregistered and every sink
\* of a request enqueued into it is closed.  The agent's Recv fails with it.
\* (A stream of a foreign peer that fails before its hello was read leaves
\* the session as a first frame that is no hello does.)
SessionClose(s) ==
    /\ sstate[s] # "closed"
    /\ apc[s] # "init" \/ sstate[s] = "live"
    /\ sstate' = [sstate EXCEPT ![s] = "closed"]
    /\ agents' = [agents EXCEPT ![sessionIdentity(s)] = @ \ {s}]
    /\ handler' = [r \in Reqs |->
           IF r \in OpenSinks(s)
           THEN [handler[r] EXCEPT !.closed = TRUE]
           ELSE handler[r]]
    /\ requests' = [requests EXCEPT ![s] = <<>>]
    /\ inHTTPRequest' = [inHTTPRequest EXCEPT ![s] = <<>>]
    /\ apc' = [apc EXCEPT ![s] = "dead"]
    /\ UNCHANGED <<apiRequestCounter, ulidNext, inCancelRequest,
                   c2a, a2c, dataflow, cancelRegistry, exec, pings, processVars,
                   foreignSent>>

\* ------------------------------------------------- agent: tunnel tasks

\* AgentStart whose first frame on the stream is a PingRequest.
AgentStartPingFirst(s) ==
    /\ apc[s] = "init"
    /\ sstate[s] # "closed"
    /\ apc' = [apc EXCEPT ![s] = "running"]
    /\ a2c' = [a2c EXCEPT ![s] = Append(@, PingRequest)]
    /\ UNCHANGED <<dataflow, cancelRegistry, exec, pings, processVars, c2a, foreignSent>>
    /\ UNCHANGED ctlVars

\* The tunnel up to the start of its tasks: open the stream, send AgentHello
\* (runKubernetesTunnel sets ProtocolVersion, runTunnel sets none).
AgentStart(s) ==
    /\ apc[s] = "init"
    /\ sstate[s] # "closed"
    /\ apc' = [apc EXCEPT ![s] = "running"]
    /\ \E v \in HelloVersions :
          a2c' = [a2c EXCEPT ![s] = Append(@, HelloFrame(v))]
    /\ UNCHANGED <<dataflow, cancelRegistry, exec, pings, processVars, c2a, foreignSent>>
    /\ UNCHANGED ctlVars

\* The pinger task: on a tick, one PingRequest written to the stream.
Pinger(s) ==
    /\ apc[s] = "running"
    /\ pings[s] < MaxPings
    /\ pings' = [pings EXCEPT ![s] = @ + 1]
    /\ a2c' = [a2c EXCEPT ![s] = Append(@, PingRequest)]
    /\ UNCHANGED <<apc, dataflow, cancelRegistry, exec, c2a, foreignSent,
                   processVars>>
    /\ UNCHANGED ctlVars

\* registerCancelFunction: the entry of the id is set.
registerCancelFunction(registry, id) == registry \cup {id}

\* unregisterCancelFunction that deletes nothing.
unregisterCancelFunctionNever(registry, id) == registry

\* unregisterCancelFunction: the entry of the id is deleted.
unregisterCancelFunction(registry, id) == registry \ {id}

\* callCancelFunction: cancel the context registered under the id, if any.
callCancelFunction(ex, registry, id) ==
    IF id \in registry
    THEN [ex EXCEPT ![id].cancelled = TRUE]
    ELSE ex

\* The receiver task: one frame read from the stream and dispatched.
AgentRecv(s) ==
    /\ apc[s] = "running"
    /\ c2a[s] # <<>>
    /\ c2a' = [c2a EXCEPT ![s] = Tail(@)]
    /\ LET in == Head(c2a[s])
       IN  CASE in.type = "cancel" ->
                    exec' = callCancelFunction(exec, cancelRegistry[s], in.id)
             [] in.type = "req" ->
                    exec' = [exec EXCEPT ![in.id] =
                        [@ EXCEPT !.pc = "start", !.target = in.target, !.sess = s]]
             [] OTHER -> UNCHANGED exec
    /\ pings' = IF Head(c2a[s]).type = "pong" THEN [pings EXCEPT ![s] = 0] ELSE pings
    /\ UNCHANGED <<apc, dataflow, cancelRegistry, a2c, foreignSent,
                   processVars>>
    /\ UNCHANGED ctlVars

\* Forwarder taking the frame put on dataflow last.
ForwarderLast(s) ==
    /\ apc[s] = "running"
    /\ dataflow[s] # <<>>
    /\ a2c' = [a2c EXCEPT ![s] = Append(@, dataflow[s][Len(dataflow[s])])]
    /\ dataflow' = [dataflow EXCEPT ![s] = SubSeq(@, 1, Len(@) - 1)]
    /\ UNCHANGED <<apc, cancelRegistry, exec, pings, processVars, c2a, foreignSent>>
    /\ UNCHANGED ctlVars

\* The outbound forwarder task: one frame taken off dataflow and written to
\* the stream.
Forwarder(s) ==
    /\ apc[s] = "running"
    /\ dataflow[s] # <<>>
    /\ a2c' = [a2c EXCEPT ![s] = Append(@, Head(dataflow[s]))]
    /\ dataflow' = [dataflow EXCEPT ![s] = Tail(@)]
    /\ UNCHANGED <<apc, cancelRegistry, exec, pings, processVars, c2a, foreignSent>>
    /\ UNCHANGED ctlVars

\* What the stream carries when two calls of Send have overlapped: gRPC
\* allows one goroutine at a time in SendMsg of a stream.
GarbledFrame == [type |-> "garbled"]

\* The frames a Send can leave on the stream: its own, or with another task
\* inside Send at the same time, also a garbled one.
SendOutcomes(s, call) ==
    {call.frame} \cup (IF inSend[s] \ {call} # {} THEN {GarbledFrame} ELSE {})

\* The pinger task on a tick: it builds the PingRequest and calls stream.Send.
PingerCallsSend(s) ==
    /\ apc[s] = "running"
    /\ pings[s] < MaxPings
    /\ \A call \in inSend[s] : call.task # "pinger"
    /\ pings' = [pings EXCEPT ![s] = @ + 1]
    /\ inSend' = [inSend EXCEPT ![s] =
                     @ \cup {[task |-> "pinger", frame |-> PingRequest]}]
    /\ UNCHANGED <<apc, dataflow, cancelRegistry, exec, c2a, a2c, foreignSent>>
    /\ UNCHANGED <<ctlVars, credVars, mainVars, headerVars, lockVars>>

\* The forwarder task: it takes a frame off dataflow and calls stream.Send.
ForwarderCallsSend(s) ==
    /\ apc[s] = "running"
    /\ dataflow[s] # <<>>
    /\ \A call \in inSend[s] : call.task # "forwarder"
    /\ dataflow' = [dataflow EXCEPT ![s] = Tail(@)]
    /\ inSend' = [inSend EXCEPT ![s] =
                     @ \cup {[task |-> "forwarder", frame |-> Head(dataflow[s])]}]
    /\ UNCHANGED <<apc, cancelRegistry, exec, pings, c2a, a2c, foreignSent>>
    /\ UNCHANGED <<ctlVars, credVars, mainVars, headerVars, lockVars>>

\* stream.Send of a task returns, its frame written to the stream.
SendReturns(s, task) ==
    /\ \E call \in inSend[s] :
          /\ call.task = task
          /\ \E written \in SendOutcomes(s, call) :
                a2c' = [a2c EXCEPT ![s] = Append(@, written)]
          /\ inSend' = [inSend EXCEPT ![s] = @ \ {call}]
    /\ UNCHANGED <<apc, dataflow, cancelRegistry, exec, pings, c2a, foreignSent>>
    /\ UNCHANGED <<ctlVars, credVars, mainVars, headerVars, lockVars>>

\* --------------------------------------------------- agent: HTTP executor

\* The header frame of the two error paths.
BadGatewayFrame(id, target) == HttpResponse(id, target, StatusBadGateway, 0)

\* HeaderFrame with the ContentLength of the error paths' header.
HeaderFrameNoLength(id, target, status, cl) == HttpResponse(id, target, status, 0)

\* The header frame of a response the upstream gave.
HeaderFrame(id, target, status, cl) == HttpResponse(id, target, status, cl)

\* ChunkFrame with Body: buf in place of buf[:n].
ChunkFrameWholeBuf(id, target, off, n) ==
    HttpChunkedResponse(id, target, Bytes(off, BufSize))

\* The frame of one non-empty read.
ChunkFrame(id, target, off, n) == HttpChunkedResponse(id, target, Bytes(off, n))

\* The frame that ends a response.
EOFFrame(id, target) == HttpChunkedResponse(id, target, emptyBytes)

\* dataflow <- resp, by the executor of id (the frame is also recorded in
\* the executor's history).
Emit(id, frame) ==
    /\ Len(dataflow[exec[id].sess]) < DataflowCap
    /\ dataflow' = [dataflow EXCEPT ![exec[id].sess] = Append(@, frame)]

\* What the executor does when Read returns context.Canceled.
OnCanceled(e) == [e EXCEPT !.pc = "done", !.end = "canceled"]

\* executeRequest from its entry to client.Do: register the cancel function
\* and build the outbound request; a build error answers 502 and returns
\* (the deferred unregisterCancelFunction runs).
ExecStart(id) ==
    /\ exec[id].pc = "start"
    /\ apc[exec[id].sess] = "running"
    /\ \E buildOK \in BOOLEAN :
         IF buildOK
         THEN /\ exec' = [exec EXCEPT ![id].pc = "do"]
              /\ cancelRegistry' = [cancelRegistry EXCEPT ![exec[id].sess] =
                         registerCancelFunction(@, id)]
              /\ UNCHANGED dataflow
         ELSE LET resp == BadGatewayFrame(id, exec[id].target)
              IN  /\ Emit(id, resp)
                  /\ exec' = [exec EXCEPT ![id] =
                         [@ EXCEPT !.pc = "done", !.end = "builderr",
                                   !.emitted = Append(@, resp)]]
                  /\ cancelRegistry' = [cancelRegistry EXCEPT ![exec[id].sess] =
                         unregisterCancelFunction(@, id)]
    /\ UNCHANGED <<apc, pings, processVars, c2a, a2c, foreignSent>>
    /\ UNCHANGED ctlVars

\* client.Do: an error answers 502 and returns; a response is answered with
\* its header frame.  A context cancelled before the call makes it fail.
ExecDo(id) ==
    /\ exec[id].pc = "do"
    /\ apc[exec[id].sess] = "running"
    /\ \/ LET resp == BadGatewayFrame(id, exec[id].target)
          IN  /\ Emit(id, resp)
              /\ exec' = [exec EXCEPT ![id] =
                     [@ EXCEPT !.pc = "done", !.end = "doerr",
                               !.emitted = Append(@, resp)]]
              /\ cancelRegistry' = [cancelRegistry EXCEPT ![exec[id].sess] =
                         unregisterCancelFunction(@, id)]
       \/ /\ ~exec[id].cancelled
          /\ \E status \in Statuses, cl \in ContentLengths :
               LET resp == HeaderFrame(id, exec[id].target, status, cl)
               IN  /\ Emit(id, resp)
                   /\ exec' = [exec EXCEPT ![id] =
                          [@ EXCEPT !.pc = "read", !.status = status, !.cl = cl,
                                    !.emitted = Append(@, resp)]]
                   /\ UNCHANGED cancelRegistry
    /\ UNCHANGED <<apc, pings, processVars, c2a, a2c, foreignSent>>
    /\ UNCHANGED ctlVars

\* The byte count of a non-empty Read into buf: the buffer is filled unless
\* fewer bytes remain before Content-Length.
ReadSize(e) ==
    IF e.cl >= 0 /\ e.cl - e.delivered < BufSize
    THEN e.cl - e.delivered
    ELSE BufSize

\* The results (n, err) a Read of the response body can give the executor:
\* never past Content-Length, io.EOF only at the end of the body,
\* context.Canceled only once the context is cancelled.
ReadResults(e) ==
    { res \in [n : {0, ReadSize(e)}, err : {"nil", "EOF", "Canceled", "error"}] :
        /\ res.n > 0 => e.reads < MaxReads
        /\ (res.n > 0 /\ e.cl >= 0) => e.delivered + res.n <= e.cl
        /\ res.err = "nil" => res.n > 0
        /\ (res.err = "EOF" /\ e.cl >= 0) => e.delivered + res.n = e.cl
        /\ res.err = "Canceled" => e.cancelled }

\* One iteration of the body loop up to its first channel send or return:
\* Read, then the chunk frame of a non-empty read.
ExecRead(id) ==
    /\ exec[id].pc = "read"
    /\ apc[exec[id].sess] = "running"
    /\ \E res \in ReadResults(exec[id]) :
         LET e == exec[id]
             chunk == ChunkFrame(id, e.target, e.delivered, res.n)
             e1 == IF res.n > 0
                   THEN [e EXCEPT !.delivered = @ + res.n, !.reads = @ + 1,
                                  !.upBody = Append(@, Bytes(e.delivered, res.n)),
                                  !.emitted = Append(@, chunk)]
                   ELSE e
             e2 == CASE res.err = "nil" -> e1
                      [] res.err = "EOF" -> [e1 EXCEPT !.pc = "term", !.end = "EOF"]
                      [] res.err = "Canceled" -> OnCanceled(e1)
                      [] OTHER -> [e1 EXCEPT !.pc = "term", !.end = "readerr"]
         IN  /\ IF res.n > 0 THEN Emit(id, chunk) ELSE UNCHANGED dataflow
             /\ exec' = [exec EXCEPT ![id] = e2]
             /\ IF e2.pc = "done"
                THEN cancelRegistry' = [cancelRegistry EXCEPT ![e.sess] =
                         unregisterCancelFunction(@, id)]
                ELSE UNCHANGED cancelRegistry
    /\ UNCHANGED <<apc, pings, processVars, c2a, a2c, foreignSent>>
    /\ UNCHANGED ctlVars

\* The end of the body loop on io.EOF or on a read error: the terminating
\* empty chunk, then return.
ExecTerminate(id) ==
    /\ exec[id].pc = "term"
    /\ apc[exec[id].sess] = "running"
    /\ LET resp == EOFFrame(id, exec[id].target)
       IN  /\ Emit(id, resp)
           /\ exec' = [exec EXCEPT ![id] =
                  [@ EXCEPT !.pc = "done", !.emitted = Append(@, resp)]]
    /\ cancelRegistry' = [cancelRegistry EXCEPT ![exec[id].sess] =
                         unregisterCancelFunction(@, id)]
    /\ UNCHANGED <<apc, pings, processVars, c2a, a2c, foreignSent>>
    /\ UNCHANGED ctlVars

\* ---------------------------------------------------- agent: shutdown

\* The controller ends the stream and the receiver has read every frame:
\* stream.Recv returns io.EOF, the receiver closes waitc and returns.
RecvEOF(s) ==
    /\ apc[s] = "running"
    /\ c2a[s] = <<>>
    /\ apc' = [apc EXCEPT ![s] = "eof"]
    /\ UNCHANGED <<dataflow, cancelRegistry, exec, pings, processVars, c2a,
                   a2c, foreignSent>>
    /\ UNCHANGED ctlVars

\* The tunnel function after <-waitc: close(dataflow), stream.CloseSend().
\* The executors started before are still running.
CloseDataflow(s) ==
    /\ apc[s] = "eof"
    /\ apc' = [apc EXCEPT ![s] = "closed"]
    /\ UNCHANGED <<dataflow, cancelRegistry, exec, pings, processVars, c2a,
                   a2c, foreignSent>>
    /\ UNCHANGED ctlVars

\* An executor reaches its next dataflow <- resp after close(dataflow): the
\* send on the closed channel panics and the panic ends the process.
SendOnClosed(id) ==
    /\ exec[id].pc \in {"do", "read", "term"}
    /\ apc[exec[id].sess] = "closed"
    /\ apc' = [apc EXCEPT ![exec[id].sess] = "panicked"]
    /\ exec' = [exec EXCEPT ![id] = [@ EXCEPT !.pc = "done", !.end = "panic"]]
    /\ UNCHANGED <<dataflow, cancelRegistry, pings, processVars, c2a, a2c,
                   foreignSent>>
    /\ UNCHANGED ctlVars

\* The tunnel function returns and main after it: the process exits.
AgentExit(s) ==
    /\ apc[s] = "closed"
    /\ apc' = [apc EXCEPT ![s] = "exited"]
    /\ UNCHANGED <<dataflow, cancelRegistry, exec, pings, processVars, c2a,
                   a2c, foreignSent>>
    /\ UNCHANGED ctlVars

\* ------------------------------------------------ an agent of other code

\* The frames an agent-side peer can put on the stream.
ForeignFrames ==
    {HelloFrame(v) : v \in {CurrentProtocolVersion}}
    \cup {HttpResponse(id, "A1", st, cl) : id \in Ids, st \in {200}, cl \in {-1, 0}}
    \cup {HttpChunkedResponse(id, "A1", b) : id \in Ids, b \in {emptyBytes, Bytes(0, 1)}}
    \cup {NilFrame}

\* A peer that is not this repository's agent writes any frame to the stream
\* (the next one once the session has read the last: the stream is ordered,
\* so the session reads the same sequences of frames as it would without
\* that wait).
ForeignSend(s, frame) ==
    /\ apc[s] = "init"
    /\ sstate[s] # "closed"
    /\ foreignSent < MaxForeign
    /\ a2c[s] = <<>>
    /\ foreignSent' = foreignSent + 1
    /\ a2c' = [a2c EXCEPT ![s] = Append(@, frame)]
    /\ UNCHANGED <<c2a>>
    /\ UNCHANGED agentVars
    /\ UNCHANGED ctlVars

\* --------------------------------------------- a controller of other code

\* The frames a controller-side peer can put on the stream.
ControllerFrames ==
    {HttpRequest(id, "A1") : id \in Ids}
    \cup {CancelRequest(id) : id \in Ids}
    \cup {NilFrame}

\* A controller that is not this repository's writes a frame to the stream:
\* a Cancel of any id it has minted, or an HttpRequest with a newly minted id
\* (the next frame once the agent has read the last: the stream is ordered
\* and the receiver never waits, so it reads the same sequences of frames).
PeerSend(s, frame) ==
    /\ apc[s] = "running"
    /\ foreignSent < MaxForeign
    /\ c2a[s] = <<>>
    /\ frame.type = "cancel" => frame.id <= ulidNext
    /\ frame.type = "req" =>
          /\ frame.id = ulidNext + 1
          /\ ulidNext < NumReqs
    /\ ulidNext' = IF frame.type = "req" THEN ulidNext + 1 ELSE ulidNext
    /\ foreignSent' = foreignSent + 1
    /\ c2a' = [c2a EXCEPT ![s] = Append(@, frame)]
    /\ UNCHANGED <<a2c>>
    /\ UNCHANGED agentVars
    /\ UNCHANGED <<agents, apiRequestCounter, handler, sstate, requests,
                   inHTTPRequest, inCancelRequest>>

\* The controller-side peer reads the next frame the agent wrote.
PeerRecv(s) ==
    /\ a2c[s] # <<>>
    /\ a2c' = [a2c EXCEPT ![s] = Tail(@)]
    /\ UNCHANGED <<c2a, foreignSent>>
    /\ UNCHANGED agentVars
    /\ UNCHANGED ctlVars

\* -------------------------------------------- agent: backend credentials

\* isSameAs without the comparison of insecure.
isSameAsInsecureIgnored(scf, scf2) ==
    /\ Field(scf, "username") = Field(scf2, "username")
    /\ Field(scf, "serverURL") = Field(scf2, "serverURL")
    /\ Field(scf, "token") = Field(scf2, "token")
    /\ Field(scf, "serverCA") = Field(scf2, "serverCA")
    /\ (Field(scf, "clientCert") = NoClientCert) <=>
           (Field(scf2, "clientCert") = NoClientCert)
    /\ (/\ Field(scf, "clientCert") # NoClientCert
        /\ Field(scf2, "clientCert") # NoClientCert) =>
           Head(Field(scf, "clientCert")) = Head(Field(scf2, "clientCert"))

\* (*serverContextFields).isSameAs: username, serverURL, token and insecure,
\* then serverCA (both nil, or both set and Equal), then clientCert (both
\* nil, or both set with the same Certificate[0]).
isSameAs(scf, scf2) ==
    IF \/ Field(scf, "username") # Field(scf2, "username")
       \/ Field(scf, "serverURL") # Field(scf2, "serverURL")
       \/ Field(scf, "token") # Field(scf2, "token")
       \/ Field(scf, "insecure") # Field(scf2, "insecure")
    THEN FALSE
    ELSE IF (Field(scf, "serverCA") = NoCA) # (Field(scf2, "serverCA") = NoCA)
    THEN FALSE
    ELSE IF /\ Field(scf, "serverCA") # NoCA
            /\ Field(scf2, "serverCA") # NoCA
            /\ Field(scf, "serverCA") # Field(scf2, "serverCA")
    THEN FALSE
    ELSE IF (Field(scf, "clientCert") = NoClientCert) #
                (Field(scf2, "clientCert") = NoClientCert)
    THEN FALSE
    ELSE IF /\ Field(scf, "clientCert") # NoClientCert
            /\ Field(scf2, "clientCert") # NoClientCert
            /\ Head(Field(scf, "clientCert")) # Head(Field(scf2, "clientCert"))
    THEN FALSE
    ELSE TRUE

\* sa.Lock() taken whoever holds the read lock.
SaLockIgnored == TRUE

\* sa.Lock() of the refresher: no reader holds sa's RWMutex.
SaLock == saReader = NoId

\* updateServerContextTicker, one round: loadSecurity, then under sa.Lock()
\* sa.f = *saf unless the credentials read are the ones held.
updateServerContextTicker(saf) ==
    /\ amain > Len(AgentConfigSteps)
    /\ fatal.agent = "none"
    /\ SaLock
    /\ saLoaded' = saf
    /\ sa' = IF isSameAs(sa, saf) THEN sa ELSE saf
    /\ UNCHANGED <<saReader, cpc, snap, atDispatch, used>>
    /\ UNCHANGED <<mainVars, headerVars, tunnelVars, syncVars>>

\* The receiver reads an HttpRequest and calls makeServerContextFields, which
\* takes src.RLock().
Dispatch(id) ==
    /\ dialed
    /\ cpc[id] = "idle"
    /\ saReader = NoId
    /\ saReader' = id
    /\ cpc' = [cpc EXCEPT ![id] = "copy"]
    /\ atDispatch' = [atDispatch EXCEPT ![id] = sa]
    /\ UNCHANGED <<sa, saLoaded, snap, used>>
    /\ UNCHANGED <<mainVars, headerVars, tunnelVars, syncVars>>

\* makeServerContextFields: the next field of src.f copied.
CopyField(id) ==
    /\ cpc[id] = "copy"
    /\ Len(snap[id]) < Len(Fields)
    /\ snap' = [snap EXCEPT ![id] = Append(@, sa[Len(@) + 1])]
    /\ UNCHANGED <<sa, saLoaded, saReader, cpc, atDispatch, used>>
    /\ UNCHANGED <<mainVars, headerVars, tunnelVars, syncVars>>

\* makeServerContextFields returns (src.RUnlock()) and the executor is
\* started with the copy.
GoExecute(id) ==
    /\ cpc[id] = "copy"
    /\ Len(snap[id]) = Len(Fields)
    /\ saReader' = NoId
    /\ cpc' = [cpc EXCEPT ![id] = "run"]
    /\ UNCHANGED <<sa, saLoaded, snap, atDispatch, used>>
    /\ UNCHANGED <<mainVars, headerVars, tunnelVars, syncVars>>

\* The executor reads the next field of the serverContextFields it was given.
ExecUse(id) ==
    /\ cpc[id] = "run"
    /\ Len(used[id]) < Len(Fields)
    /\ used' = [used EXCEPT ![id] = Append(@, snap[id][Len(@) + 1])]
    /\ UNCHANGED <<sa, saLoaded, saReader, cpc, snap, atDispatch>>
    /\ UNCHANGED <<mainVars, headerVars, tunnelVars, syncVars>>

\* ------------------------------------------- controller: registry lock

\* agents.Lock() of a writer: no handler holds the read lock.
RegistryLock == regReaders = {}

\* kubernetesAPIHandler: agents.RLock() and the lookup; with no session
\* agents.RUnlock() and 502, else the pick of a session.
HandlerRLock(r) ==
    /\ entry[r].pc = "new"
    /\ IF registered = {}
       THEN /\ entry' = [entry EXCEPT ![r].pc = "noagents"]
            /\ UNCHANGED regReaders
       ELSE /\ \E agent \in registered :
                 entry' = [entry EXCEPT ![r] = [pc |-> "body", agent |-> agent]]
            /\ regReaders' = regReaders \cup {r}
    /\ UNCHANGED <<registered, stalled>>
    /\ UNCHANGED <<credVars, mainVars, headerVars, tunnelVars, sendVars>>

\* kubernetesAPIHandler: ioutil.ReadAll(r.Body) returns, the client having
\* sent the whole body; the HttpRequest and the message are built.
ReadBody(r) ==
    /\ entry[r].pc = "body"
    /\ entry' = [entry EXCEPT ![r].pc = "send"]
    /\ UNCHANGED <<regReaders, registered, stalled>>
    /\ UNCHANGED <<credVars, mainVars, headerVars, tunnelVars, sendVars>>

\* kubernetesAPIHandler: agent.inHTTPRequest <- message is received by the
\* session, then agents.RUnlock().
SendAndRUnlock(r) ==
    /\ entry[r].pc = "send"
    /\ entry[r].agent \notin stalled
    /\ entry' = [entry EXCEPT ![r].pc = "loop"]
    /\ regReaders' = regReaders \ {r}
    /\ UNCHANGED <<registered, stalled>>
    /\ UNCHANGED <<credVars, mainVars, headerVars, tunnelVars, sendVars>>

\* Register(session), under agents.Lock().
Register(s) ==
    /\ s \notin registered
    /\ RegistryLock
    /\ registered' = registered \cup {s}
    /\ UNCHANGED <<regReaders, entry, stalled>>
    /\ UNCHANGED <<credVars, mainVars, headerVars, tunnelVars, sendVars>>

\* Unregister(session), under agents.Lock().
Unregister(s) ==
    /\ s \in registered
    /\ RegistryLock
    /\ registered' = registered \ {s}
    /\ stalled' = stalled \ {s}
    /\ UNCHANGED <<regReaders, entry>>
    /\ UNCHANGED <<credVars, mainVars, headerVars, tunnelVars, sendVars>>

\* A session stops taking requests off inHTTPRequest (its agent's stream
\* does not accept frames).
Stall(s) ==
    /\ s \in registered \ stalled
    /\ stalled' = stalled \cup {s}
    /\ UNCHANGED <<regReaders, entry, registered>>
    /\ UNCHANGED <<credVars, mainVars, headerVars, tunnelVars, sendVars>>

\* ---------------------------------------------------------------- startup

\* What main reads before it can serve, and log.Fatalf (or panics) on.
ConfigErrors == {"LoadConfig", "MakeCA", "MakeServerCert", "LoadX509KeyPair",
                 "loadCert", "loadSecurity"}

\* The process is running: main has not ended it.
ControllerUp == fatal.controller = "none"

\* log.Fatalf in the controller, at the named step.
ControllerFatal(step) ==
    /\ fatal' = [fatal EXCEPT !.controller = step]
    /\ cmain' = "exit"

\* main: LoadConfig; on an error the log statement reads config.ServerNames
\* of the nil config and the process panics.
LoadControllerConfig(ok) ==
    /\ ControllerUp
    /\ cmain = "LoadConfig"
    /\ IF ok
       THEN cmain' = "MakeCA" /\ UNCHANGED fatal
       ELSE ControllerFatal("LoadConfig")
    /\ UNCHANGED <<ctask, listeners, amain, dialed>>
    /\ UNCHANGED <<credVars, headerVars, tunnelVars, syncVars>>

\* main: ca.MakeCA, log.Fatalf on an error.
MakeCA(ok) ==
    /\ ControllerUp
    /\ cmain = "MakeCA"
    /\ IF ok
       THEN cmain' = "Prometheus" /\ UNCHANGED fatal
       ELSE ControllerFatal("MakeCA")
    /\ UNCHANGED <<ctask, listeners, amain, dialed>>
    /\ UNCHANGED <<credVars, headerVars, tunnelVars, syncVars>>

\* main: go runPrometheusHTTPServer.
GoPrometheus ==
    /\ ControllerUp
    /\ cmain = "Prometheus"
    /\ cmain' = "MakeServerCert"
    /\ ctask' = [ctask EXCEPT !.prometheus = "started"]
    /\ UNCHANGED <<listeners, fatal, amain, dialed>>
    /\ UNCHANGED <<credVars, headerVars, tunnelVars, syncVars>>

\* runPrometheusHTTPServer: server.ListenAndServe.
runPrometheusHTTPServer ==
    /\ ControllerUp
    /\ ctask.prometheus = "started"
    /\ ctask' = [ctask EXCEPT !.prometheus = "serving"]
    /\ listeners' = listeners \cup {"prometheus"}
    /\ UNCHANGED <<cmain, fatal, amain, dialed>>
    /\ UNCHANGED <<credVars, headerVars, tunnelVars, syncVars>>

\* main: authority.MakeServerCert, log.Fatalf on an error.
MakeServerCert(ok) ==
    /\ ControllerUp
    /\ cmain = "MakeServerCert"
    /\ IF ok
       THEN cmain' = "HTTP" /\ UNCHANGED fatal
       ELSE ControllerFatal("MakeServerCert")
    /\ UNCHANGED <<ctask, listeners, amain, dialed>>
    /\ UNCHANGED <<credVars, headerVars, tunnelVars, syncVars>>

\* main: go runAgentHTTPServer, then runGRPCServer is called.
GoAgentHTTPServer ==
    /\ ControllerUp
    /\ cmain = "HTTP"
    /\ cmain' = "GRPC"
    /\ ctask' = [ctask EXCEPT !.https = "started", !.grpc = "started"]
    /\ UNCHANGED <<listeners, fatal, amain, dialed>>
    /\ UNCHANGED <<credVars, headerVars, tunnelVars, syncVars>>

\* runAgentHTTPServer: authority.MakeCertPool, log.Fatalf on an error, then
\* server.ListenAndServeTLS.
runAgentHTTPServer(ok) ==
    /\ ControllerUp
    /\ ctask.https = "started"
    /\ IF ok
       THEN /\ ctask' = [ctask EXCEPT !.https = "serving"]
            /\ listeners' = listeners \cup {"https"}
            /\ UNCHANGED <<cmain, fatal>>
       ELSE /\ ControllerFatal("MakeCertPool")
            /\ UNCHANGED <<ctask, listeners>>
    /\ UNCHANGED <<amain, dialed>>
    /\ UNCHANGED <<credVars, headerVars, tunnelVars, syncVars>>

\* runGRPCServer: net.Listen.
GRPCListen ==
    /\ ControllerUp
    /\ ctask.grpc = "started"
    /\ ctask' = [ctask EXCEPT !.grpc = "listening"]
    /\ listeners' = listeners \cup {"grpc"}
    /\ UNCHANGED <<cmain, fatal, amain, dialed>>
    /\ UNCHANGED <<credVars, headerVars, tunnelVars, syncVars>>

\* runGRPCServer: authority.MakeCertPool, log.Fatalf on an error, then
\* grpcServer.Serve.
GRPCServe(ok) ==
    /\ ControllerUp
    /\ ctask.grpc = "listening"
    /\ IF ok
       THEN /\ ctask' = [ctask EXCEPT !.grpc = "serving"]
            /\ cmain' = "Serve"
            /\ UNCHANGED fatal
       ELSE /\ ControllerFatal("MakeCertPool")
            /\ UNCHANGED ctask
    /\ UNCHANGED <<listeners, amain, dialed>>
    /\ UNCHANGED <<credVars, headerVars, tunnelVars, syncVars>>

\* main of the agent: the next of its configuration steps.
AgentConfigStep(ok) ==
    /\ fatal.agent = "none"
    /\ amain <= Len(AgentConfigSteps)
    /\ IF ok
       THEN amain' = amain + 1 /\ UNCHANGED fatal
       ELSE /\ fatal' = [fatal EXCEPT !.agent = AgentConfigSteps[amain]]
            /\ UNCHANGED amain
    /\ UNCHANGED <<cmain, ctask, listeners, dialed>>
    /\ UNCHANGED <<credVars, headerVars, tunnelVars, syncVars>>

\* main of the agent: grpc.Dial (the refresher is started just before it).
AgentDial ==
    /\ fatal.agent = "none"
    /\ amain > Len(AgentConfigSteps)
    /\ ~dialed
    /\ dialed' = TRUE
    /\ UNCHANGED <<cmain, ctask, listeners, fatal, amain>>
    /\ UNCHANGED <<credVars, headerVars, tunnelVars, syncVars>>

\* --------------------------------------------------------------- headers

\* The orders in which a range over a map of these names can visit them.
Orders(names) ==
    {o \in [1 .. Cardinality(names) -> names] :
        \A i, j \in 1 .. Cardinality(names) : o[i] = o[j] => i = j}

\* The controller's makeHeaders, the map ranged over in the given order.
makeHeaders(headers, order) ==
    LET kept == SelectSeq(order, LAMBDA name : name # "Accept-Encoding")
    IN  [i \in 1 .. Len(kept) |->
            [name |-> kept[i], values |-> headers[kept[i]]]]

\* The executor's loop over req.Headers: httpRequest.Header.Add of every
\* value under its name.
RECURSIVE AddHeaders(_, _)
AddHeaders(header, frameHeaders) ==
    IF frameHeaders = <<>>
    THEN header
    ELSE AddHeaders(
            [header EXCEPT ![Head(frameHeaders).name] =
                @ \o Head(frameHeaders).values],
            Tail(frameHeaders))

\* The executor's httpRequest.Header.Set("Authorization", "Bearer "+c.token)
\* when the token is not empty.
SetAuthorization(header, token) ==
    IF token # ""
    THEN [header EXCEPT !["Authorization"] = <<"Bearer token">>]
    ELSE header

\* A client's request arrives at kubernetesAPIHandler with r.Header.
InboundRequest(headers) ==
    /\ hpc = "idle"
    /\ hIn' = headers
    /\ hpc' = "inbound"
    /\ UNCHANGED <<hFrame, hOut, wHeader>>
    /\ UNCHANGED <<credVars, mainVars, tunnelVars, syncVars>>

\* kubernetesAPIHandler builds the HttpRequest: Headers: makeHeaders(r.Header).
BuildFrame ==
    /\ hpc = "inbound"
    /\ \E order \in Orders({name \in HeaderNames : hIn[name] # <<>>}) :
          hFrame' = makeHeaders(hIn, order)
    /\ hpc' = "framed"
    /\ UNCHANGED <<hIn, hOut, wHeader>>
    /\ UNCHANGED <<credVars, mainVars, tunnelVars, syncVars>>

\* executeRequest copies the frame's headers onto the outbound request.
CopyHeaders ==
    /\ hpc = "framed"
    /\ hOut' = AddHeaders(NoHeaders, hFrame)
    /\ hpc' = "copied"
    /\ UNCHANGED <<hIn, hFrame, wHeader>>
    /\ UNCHANGED <<credVars, mainVars, tunnelVars, syncVars>>

\* executeRequest sets the token of its credentials and sends the request.
SendOutbound(token) ==
    /\ hpc = "copied"
    /\ hOut' = SetAuthorization(hOut, token)
    /\ hpc' = "sent"
    /\ UNCHANGED <<hIn, hFrame, wHeader>>
    /\ UNCHANGED <<credVars, mainVars, tunnelVars, syncVars>>

\* The handler's loop "for name := range w.Header() { r.Header.Del(name) }":
\* every name present in the response header is deleted from the request's.
DelResponseNames(rHeader, responseHeader) ==
    [name \in HeaderNames |->
        IF responseHeader[name] # <<>> THEN <<>> ELSE rHeader[name]]

\* The response writer reaches the handler with headers already set on it.
DefaultResponseHeaders(defaults) ==
    /\ hpc = "inbound"
    /\ wHeader' = defaults
    /\ hpc' = "waiting"
    /\ UNCHANGED <<hIn, hFrame, hOut>>
    /\ UNCHANGED <<credVars, mainVars, tunnelVars, syncVars>>

\* The handler's case HttpResponse up to w.WriteHeader: the loop over
\* w.Header(), then w.Header().Add of every value of every header of the frame.
CopyResponseHeaders(respHeaders) ==
    /\ hpc = "waiting"
    /\ hFrame' = respHeaders
    /\ hIn' = DelResponseNames(hIn, wHeader)
    /\ wHeader' = AddHeaders(wHeader, respHeaders)
    /\ hpc' = "responded"
    /\ UNCHANGED hOut
    /\ UNCHANGED <<credVars, mainVars, tunnelVars, syncVars>>

\* --------------------------------------------------------- specifications

Controller ==
    \/ \E r \in Reqs, cn \in CommonNames : HandlerStart(r, cn)
    \/ \E r \in Reqs : ClientDisconnect(r)
    \/ \E r \in Reqs : Watcher(r)
    \/ \E r \in Reqs : HandlerClosed(r)
    \/ \E s \in Sessions : SessionSendRequest(s)
    \/ \E s \in Sessions : SessionSendCancel(s)
    \/ \E s \in Sessions : SessionRecv(s)
    \/ \E s \in Sessions : SessionClose(s)

Agent ==
    \/ \E s \in OwnSessions : AgentStart(s)
    \/ \E s \in OwnSessions : AgentRecv(s)
    \/ \E s \in OwnSessions : Forwarder(s)
    \/ \E id \in Ids : ExecStart(id)
    \/ \E id \in Ids : ExecDo(id)
    \/ \E id \in Ids : ExecRead(id)
    \/ \E id \in Ids : ExecTerminate(id)

Next == Controller \/ Agent

\* The controller with the agent built from this repository.
Spec == Init /\ [][Next]_vars

NextRoundTrip ==
    \/ \E r \in Reqs, cn \in CommonNames : HandlerStart(r, cn)
    \/ \E r \in Reqs : Watcher(r)
    \/ \E s \in Sessions : SessionSendRequest(s)
    \/ \E s \in Sessions : SessionRecv(s)
    \/ Agent

\* The controller and the agent while no client disconnects and the stream
\* does not fail.
SpecRoundTrip == Init /\ [][NextRoundTrip]_vars

NextController ==
    \/ Controller
    \/ \E s \in OwnSessions, frame \in ForeignFrames : ForeignSend(s, frame)

\* The controller with a peer that may send any frame in any order.
SpecController == Init /\ [][NextController]_vars

NextAgent ==
    \/ Agent
    \/ \E s \in OwnSessions, frame \in ControllerFrames : PeerSend(s, frame)
    \/ \E s \in OwnSessions : PeerRecv(s)

NextShutdown ==
    \/ NextAgent
    \/ \E s \in OwnSessions : RecvEOF(s)
    \/ \E s \in OwnSessions : CloseDataflow(s)
    \/ \E id \in Ids : SendOnClosed(id)
    \/ \E s \in OwnSessions : AgentExit(s)

\* The agent with any controller, one that may end the stream.
SpecShutdown == Init /\ [][NextShutdown]_vars

\* The tasks of the controller keep being scheduled; clients and agents
\* are not obliged to act, and a stream need not fail.
FairnessController ==
    /\ \A r \in Reqs : WF_vars(Watcher(r)) /\ WF_vars(HandlerClosed(r))
    /\ \A s \in Sessions :
         /\ WF_vars(SessionSendRequest(s))
         /\ WF_vars(SessionSendCancel(s))
         /\ WF_vars(SessionRecv(s))

FairSpecController == Init /\ [][NextController]_vars /\ FairnessController

\* The agent with a controller that may send any request and any Cancel.
SpecAgent == Init /\ [][NextAgent]_vars

NextKeepalive ==
    \/ \E s \in OwnSessions : AgentStart(s)
    \/ \E s \in OwnSessions : AgentRecv(s)
    \/ \E s \in OwnSessions : Pinger(s)
    \/ \E s \in OwnSessions, frame \in {PingResponse, NilFrame} :
          PeerSend(s, frame)
    \/ \E s \in OwnSessions : PeerRecv(s)

\* The tunnel's keepalive: the pinger and the receiver of an agent without
\* requests, with a controller that may or may not answer a ping.
SpecKeepalive == Init /\ [][NextKeepalive]_vars

\* The request whose frames are followed to the stream, and the id of the
\* frames of the other executors.
OrderIds == {1}
OtherId == NumReqs + 1
OtherFrame == HttpChunkedResponse(OtherId, "A1", Bytes(0, 1))

\* The frames of the controller about the request followed.
OrderFrames ==
    {frame \in ControllerFrames : frame = NilFrame \/ frame.id \in OrderIds}

\* The pings written and the frames emitted by other executors.
Others(s) ==
    pings[s] + Len(SelectSeq(dataflow[s] \o a2c[s], LAMBDA f : f = OtherFrame))

\* Another executor sends a frame of its request on the dataflow channel.
OtherEmit(s) ==
    /\ apc[s] = "running"
    /\ Others(s) < MaxOther
    /\ Len(dataflow[s]) < DataflowCap
    /\ dataflow' = [dataflow EXCEPT ![s] = Append(@, OtherFrame)]
    /\ UNCHANGED <<apc, cancelRegistry, exec, pings, processVars, c2a, a2c, foreignSent>>
    /\ UNCHANGED ctlVars

NextOrder ==
    \/ \E s \in OwnSessions : AgentStart(s)
    \/ \E s \in OwnSessions : AgentRecv(s)
    \/ \E s \in OwnSessions : Forwarder(s)
    \/ \E s \in OwnSessions : Others(s) < MaxOther /\ Pinger(s)
    \/ \E s \in OwnSessions : OtherEmit(s)
    \/ \E id \in OrderIds : ExecStart(id)
    \/ \E id \in OrderIds : ExecDo(id)
    \/ \E id \in OrderIds : ExecRead(id)
    \/ \E id \in OrderIds : ExecTerminate(id)
    \/ \E s \in OwnSessions, frame \in OrderFrames : PeerSend(s, frame)

\* The agent with one executor followed, other executors and the pinger
\* writing among its frames, and any controller; no frame written to the
\* stream is taken off it.
SpecOrder == Init /\ [][NextOrder]_vars

\* The first frames a peer can put on a stream: a hello of the controller's
\* version, a hello of another version, and a frame that is no hello.
HandshakeFrames ==
    {HelloFrame(v) : v \in {CurrentProtocolVersion, CurrentProtocolVersion - 1}}
    \cup {NilFrame}

NextRegistry ==
    \/ Controller
    \/ \E s \in Sessions, frame \in HandshakeFrames : ForeignSend(s, frame)

\* The controller with several agents connecting and disconnecting.
SpecRegistry == Init /\ [][NextRegistry]_vars

NextNoFault ==
    \/ \E r \in Reqs, cn \in CommonNames : HandlerStart(r, cn)
    \/ \E r \in Reqs : ClientDisconnect(r)
    \/ \E r \in Reqs : Watcher(r)
    \/ \E s \in Sessions : SessionSendRequest(s)
    \/ \E s \in Sessions : SessionSendCancel(s)
    \/ \E s \in Sessions : SessionRecv(s)
    \/ Agent

\* Every task of the controller and of the agent keeps being scheduled (each
\* is a goroutine of its own); clients and the upstream are not obliged to
\* act, and the stream does not fail.
Fairness ==
    /\ \A r \in Reqs : WF_vars(Watcher(r))
    /\ \A s \in Sessions :
         /\ WF_vars(SessionSendRequest(s))
         /\ WF_vars(SessionSendCancel(s))
         /\ WF_vars(SessionRecv(s))
    /\ \A s \in OwnSessions :
         /\ WF_vars(AgentStart(s))
         /\ WF_vars(AgentRecv(s))
         /\ WF_vars(Forwarder(s))
    /\ \A id \in Ids :
         /\ WF_vars(ExecStart(id))
         /\ WF_vars(ExecDo(id))
         /\ WF_vars(ExecRead(id))
         /\ WF_vars(ExecTerminate(id))

FairSpec == Init /\ [][NextNoFault]_vars /\ Fairness

\* The agent's main, its credential refresher and the dispatch of requests
\* to executors.
NextCredentials ==
    \/ \E ok \in BOOLEAN : AgentConfigStep(ok)
    \/ AgentDial
    \/ \E saf \in Creds : updateServerContextTicker(saf)
    \/ \E id \in CredIds : Dispatch(id)
    \/ \E id \in CredIds : CopyField(id)
    \/ \E id \in CredIds : GoExecute(id)
    \/ \E id \in CredIds : ExecUse(id)

SpecCredentials == Init /\ [][NextCredentials]_vars

\* The agent's main and its credential refresher.
NextRefresher ==
    \/ \E ok \in BOOLEAN : AgentConfigStep(ok)
    \/ AgentDial
    \/ \E saf \in LoadableCreds : updateServerContextTicker(saf)

SpecRefresher == Init /\ [][NextRefresher]_vars

\* The main of the controller and the main of the agent.
NextStartup ==
    \/ \E ok \in BOOLEAN : LoadControllerConfig(ok)
    \/ \E ok \in BOOLEAN : MakeCA(ok)
    \/ GoPrometheus
    \/ runPrometheusHTTPServer
    \/ \E ok \in BOOLEAN : MakeServerCert(ok)
    \/ GoAgentHTTPServer
    \/ \E ok \in BOOLEAN : runAgentHTTPServer(ok)
    \/ GRPCListen
    \/ \E ok \in BOOLEAN : GRPCServe(ok)
    \/ \E ok \in BOOLEAN : AgentConfigStep(ok)
    \/ AgentDial

SpecStartup == Init /\ [][NextStartup]_vars

\* The sessions of the controller, one with the agent of this repository
\* writing its hello, pings and chunk frames, the others with peers whose
\* first frame is any frame.
NextHandshake ==
    \/ \E s \in OwnSessions : AgentStart(s)
    \/ \E s \in OwnSessions : Pinger(s)
    \/ \E s \in OwnSessions : OtherEmit(s)
    \/ \E s \in OwnSessions : Forwarder(s)
    \/ \E s \in Sessions : SessionRecv(s)
    \/ \E s \in Sessions \ OwnSessions, frame \in ForeignFrames :
          ForeignSend(s, frame)

SpecHandshake == Init /\ [][NextHandshake]_vars

\* The handler's treatment of the headers of a header frame.
NextResponseHeaders ==
    \/ \E headers \in SingleValueMaps : InboundRequest(headers)
    \/ \E defaults \in SingleValueMaps : DefaultResponseHeaders(defaults)
    \/ \E respHeaders \in ResponseHeaders : CopyResponseHeaders(respHeaders)

SpecResponseHeaders == Init /\ [][NextResponseHeaders]_vars

\* The frames of a tunnel on their way: queued on dataflow, inside Send, on
\* the stream.
Underway(s) == Len(dataflow[s]) + Cardinality(inSend[s]) + Len(a2c[s])

\* The two tasks of a tunnel that write to its stream, with executors
\* filling dataflow.
NextSend ==
    \/ \E s \in OwnSessions : AgentStart(s)
    \/ \E s \in OwnSessions : Underway(s) <= MaxOther + 1 /\ OtherEmit(s)
    \/ \E s \in OwnSessions : Underway(s) <= MaxOther + 1 /\ PingerCallsSend(s)
    \/ \E s \in OwnSessions : ForwarderCallsSend(s)
    \/ \E s \in OwnSessions, task \in {"pinger", "forwarder"} :
          SendReturns(s, task)

SpecSend == Init /\ [][NextSend]_vars

\* ------------------------------------- agent: requests of other protocols

\* HttpRequest.Protocol: the protocol the agent executes, and another.
Protocols == {"kubernetes", "other"}

\* tunnel.HttpRequest with its Protocol.
HttpRequestFor(id, target, protocol) ==
    [type |-> "req", id |-> id, target |-> target, protocol |-> protocol]

\* The frames of the controller about one request of either protocol.
ProtocolFrames ==
    {HttpRequestFor(id, "A1", protocol) : id \in OrderIds, protocol \in Protocols}
    \cup {CancelRequest(id) : id \in OrderIds}
    \cup {NilFrame}

\* makeBadGatewayResponse(req.Id, req.Target)
makeBadGatewayResponse(id, target) == BadGatewayFrame(id, target)

\* The receiver starting an executor whatever the protocol of the request.
KubernetesRecvAnyProtocol(s) ==
    /\ apc[s] = "running"
    /\ c2a[s] # <<>>
    /\ c2a' = [c2a EXCEPT ![s] = Tail(@)]
    /\ LET in == Head(c2a[s])
       IN  CASE in.type = "cancel" ->
                    exec' = callCancelFunction(exec, cancelRegistry[s], in.id)
             [] in.type = "req" ->
                    exec' = [exec EXCEPT ![in.id] =
                        [@ EXCEPT !.pc = "start", !.target = in.target, !.sess = s]]
             [] OTHER -> UNCHANGED exec
    /\ UNCHANGED <<apc, dataflow, cancelRegistry, pings, a2c, foreignSent,
                   processVars>>
    /\ UNCHANGED ctlVars

\* The receiver task of runKubernetesTunnel: one frame read from the stream
\* and dispatched. A request of the protocol "kubernetes" gets an executor;
\* for any other protocol the receiver itself sends the bad-gateway frame on
\* dataflow, which it can do once the channel has room.
KubernetesRecv(s) ==
    /\ apc[s] = "running"
    /\ c2a[s] # <<>>
    /\ c2a' = [c2a EXCEPT ![s] = Tail(@)]
    /\ LET in == Head(c2a[s])
       IN  CASE in.type = "cancel" ->
                    /\ exec' = callCancelFunction(exec, cancelRegistry[s], in.id)
                    /\ UNCHANGED dataflow
             [] in.type = "req" /\ in.protocol = "kubernetes" ->
                    /\ exec' = [exec EXCEPT ![in.id] =
                          [@ EXCEPT !.pc = "start", !.target = in.target, !.sess = s]]
                    /\ UNCHANGED dataflow
             [] in.type = "req" /\ in.protocol # "kubernetes" ->
                    /\ Len(dataflow[s]) < DataflowCap
                    /\ dataflow' = [dataflow EXCEPT ![s] =
                          Append(@, makeBadGatewayResponse(in.id, in.target))]
                    /\ UNCHANGED exec
             [] OTHER -> UNCHANGED <<exec, dataflow>>
    /\ UNCHANGED <<apc, cancelRegistry, pings, a2c, foreignSent, processVars>>
    /\ UNCHANGED ctlVars

\* An executor or a command of the tunnel sends a frame on dataflow.
ExecutorEmit(s) ==
    /\ apc[s] = "running"
    /\ Len(dataflow[s]) < DataflowCap
    /\ dataflow' = [dataflow EXCEPT ![s] = Append(@, OtherFrame)]
    /\ UNCHANGED <<apc, cancelRegistry, exec, pings, processVars, c2a, a2c, foreignSent>>
    /\ UNCHANGED ctlVars

\* stream.Send of the forwarder, which returns once the peer has taken the
\* frame written before.
ForwarderSend(s) == a2c[s] = <<>> /\ Forwarder(s)

\* The receiver of runKubernetesTunnel with requests of either protocol,
\* executors filling dataflow and the forwarder draining it.
NextProtocol ==
    \/ \E s \in OwnSessions : AgentStart(s)
    \/ \E s \in OwnSessions, frame \in ProtocolFrames : PeerSend(s, frame)
    \/ \E s \in OwnSessions : PeerRecv(s)
    \/ \E s \in OwnSessions : KubernetesRecv(s)
    \/ \E s \in OwnSessions : ExecutorEmit(s)
    \/ \E s \in OwnSessions : ForwarderSend(s)

\* The forwarder goroutine keeps being scheduled and the peer keeps reading
\* the stream; the receiver blocked in "dataflow <-" is served in its turn
\* (a Go channel wakes its blocked senders first come, first served), so it
\* is not overtaken for ever by the executors that send after it.
FairnessProtocol ==
    \A s \in OwnSessions :
        /\ SF_vars(KubernetesRecv(s))
        /\ WF_vars(ForwarderSend(s))
        /\ WF_vars(PeerRecv(s))

FairSpecProtocol == Init /\ [][NextProtocol]_vars /\ FairnessProtocol

\* Handlers entering while sessions register, unregister and stall.
NextRegistryLock ==
    \/ \E r \in LockReqs : HandlerRLock(r)
    \/ \E r \in LockReqs : ReadBody(r)
    \/ \E r \in LockReqs : SendAndRUnlock(r)
    \/ \E s \in Sessions : Register(s)
    \/ \E s \in Sessions : Unregister(s)
    \/ \E s \in Sessions : Stall(s)

SpecRegistryLock == Init /\ [][NextRegistryLock]_vars

\* The headers of one request, from the client to the backend.
NextHeaders ==
    \/ \E headers \in HeaderMaps : InboundRequest(headers)
    \/ BuildFrame
    \/ CopyHeaders
    \/ \E token \in Tokens : SendOutbound(token)

SpecHeaders == Init /\ [][NextHeaders]_vars

\* ---------------------------------------------------------------- claims

\* The frames of one response as the executor's contract gives them: one
\* header frame, chunk frames with a non-empty body of at most BufSize bytes,
\* one chunk frame with an empty body, all bearing the id and the target.
ResponseFrames(frames, id, target) ==
    /\ Len(frames) >= 2
    /\ frames[1].type = "resp"
    /\ \A i \in 2 .. Len(frames) - 1 :
         /\ frames[i].type = "chunk"
         /\ frames[i].body.len > 0
         /\ frames[i].body.len <= BufSize
    /\ frames[Len(frames)].type = "chunk"
    /\ frames[Len(frames)].body.len = 0
    /\ \A i \in 1 .. Len(frames) :
         frames[i].id = id /\ frames[i].target = target

\* The bodies of the non-empty chunk frames among frames, in order.
ChunkBodies(frames) ==
    LET F[i \in 0 .. Len(frames)] ==
            IF i = 0 THEN <<>>
            ELSE IF frames[i].type = "chunk" /\ frames[i].body.len > 0
                 THEN Append(F[i - 1], frames[i].body)
                 ELSE F[i - 1]
    IN  F[Len(frames)]

\* C1: on every path of the executor, the frames it put on dataflow for a
\* request are one header frame, then chunks with a non-empty body of at most
\* 10240 bytes, then exactly one chunk with an empty body, all with the
\* request's id and target.
C1_ExecutorFrames ==
    \A id \in Ids :
        exec[id].pc = "done" =>
            ResponseFrames(exec[id].emitted, id, exec[id].target)

\* C2: a build error or an execute error is answered with a header frame of
\* status 502 and contentLength 0 followed by the terminating empty chunk,
\* after which the executor has returned.
C2_ErrorPathFrames ==
    \A id \in Ids :
        exec[id].end \in {"builderr", "doerr"} =>
            /\ exec[id].pc = "done"
            /\ exec[id].emitted = <<BadGatewayFrame(id, exec[id].target),
                                    EOFFrame(id, exec[id].target)>>

\* C3: once the header frame is out, the body loop ends with the terminating
\* empty chunk on EOF, on cancellation and on any other read error; on EOF
\* every byte read went out in a chunk before it.
C3_LoopEndsWithEmptyChunk ==
    \A id \in Ids :
        (exec[id].pc = "done" /\ exec[id].end \in {"EOF", "canceled", "readerr"}) =>
            LET frames == exec[id].emitted
            IN  /\ frames[Len(frames)] = EOFFrame(id, exec[id].target)
                /\ exec[id].end = "EOF" =>
                       ChunkBodies(frames) = exec[id].upBody

IsPrefix(a, b) == Len(a) <= Len(b) /\ \A i \in 1 .. Len(a) : a[i] = b[i]

\* The upstream has answered the request of this executor with a status.
Answered(e) == e.pc \in {"read", "term", "done"} /\ e.end \notin {"builderr", "doerr"}

\* C4: while no client disconnects and nothing fails, the handler writes the
\* status the upstream returned, once, the bodies it writes are at any time
\* the first of those read from the upstream, in order, and once the upstream
\* body was read to its end and the handler has returned they are all of them.
C4_RoundTrip ==
    \A r \in Reqs :
        LET h == handler[r]
        IN  (h.id # NoId /\ Answered(exec[h.id])) =>
                /\ h.seenHeader => h.status = <<exec[h.id].status>>
                /\ IsPrefix(h.body, exec[h.id].upBody)
                /\ (h.pc = "done" /\ exec[h.id].end = "EOF") =>
                       /\ h.status = <<exec[h.id].status>>
                       /\ h.body = exec[h.id].upBody

\* A response of two chunks has gone from the upstream to the client.
C4_Witness ==
    \E r \in Reqs :
        /\ handler[r].exit = "emptychunk"
        /\ exec[handler[r].id].end = "EOF"
        /\ Len(handler[r].body) = 2
        /\ handler[r].status = <<404>>

\* C5: a request for an identity with no registered session is answered 502
\* by the step that counts it (the counter of that identity goes up by
\* exactly 1) and that step mints no id and puts nothing into any session
\* channel; no watcher exists for it, so no Cancel is ever sent for it.
C5_NoAgents ==
    /\ [][\A r \in Reqs :
            (/\ handler[r].pc = "new"
             /\ handler'[r].pc # "new"
             /\ agents[handler'[r].agentname] = {}) =>
                /\ handler'[r].pc = "done"
                /\ handler'[r].status = <<StatusBadGateway>>
                /\ handler'[r].id = NoId
                /\ ulidNext' = ulidNext
                /\ inHTTPRequest' = inHTTPRequest
                /\ inCancelRequest' = inCancelRequest
                /\ requests' = requests
                /\ apiRequestCounter' =
                       [apiRequestCounter EXCEPT ![handler'[r].agentname] = @ + 1]]_vars
    /\ [](\A r \in Reqs :
            handler[r].exit = "noagents" =>
                /\ handler[r].pc = "done"
                /\ handler[r].status = <<StatusBadGateway>>
                /\ handler[r].id = NoId
                /\ handler[r].watch = "none"
                /\ handler[r].cancels = 0)

\* A request found no session for its identity, while another identity had
\* one, and was counted.
C5_Witness ==
    \E r \in Reqs :
        /\ handler[r].exit = "noagents"
        /\ \E i \in Idents : agents[i] # {}
        /\ handler[r].status = <<StatusBadGateway>>
        /\ apiRequestCounter[handler[r].agentname] >= 1

\* The session hands the frame at the head of the stream to the handler of
\* request r in this step.
Delivers(s, r, type) ==
    /\ sstate[s] = "live"
    /\ a2c[s] # <<>>
    /\ a2c'[s] = Tail(a2c[s])
    /\ Head(a2c[s]).type = type
    /\ Head(a2c[s]).id \in DOMAIN requests[s]
    /\ requests[s][Head(a2c[s]).id] = r

\* C6: a handler that has seen no header frame and receives a chunk frame
\* answers 502 and returns, and none of the chunk's body is written.
C6_ChunkBeforeHeader ==
    [][\A s \in Sessions, r \in Reqs :
          (Delivers(s, r, "chunk") /\ ~handler[r].seenHeader) =>
              /\ handler'[r].pc = "done"
              /\ handler'[r].status = <<StatusBadGateway>>
              /\ handler'[r].body = <<>>]_vars

\* A handler has returned on a chunk that came before any header.
C6_Witness ==
    \E r \in Reqs :
        /\ handler[r].exit = "noheader"
        /\ handler[r].status = <<StatusBadGateway>>

\* C7: a handler whose response channel is closed returns; in that step it
\* answers 502 if no header frame was received and otherwise leaves status
\* and body as they are; a handler that has returned writes nothing more.
C7_ClosedChannel ==
    /\ [][\A r \in Reqs :
            (handler[r].pc = "wait" /\ handler[r].closed /\ handler'[r].pc = "done") =>
                /\ handler'[r].body = handler[r].body
                /\ handler'[r].status =
                       IF handler[r].seenHeader
                       THEN handler[r].status
                       ELSE <<StatusBadGateway>>]_vars
    /\ [][\A r \in Reqs :
            handler[r].pc = "done" =>
                /\ handler'[r].pc = "done"
                /\ handler'[r].status = handler[r].status
                /\ handler'[r].body = handler[r].body]_vars

\* A handler has returned on a channel closed after the header frame.
C7_Witness ==
    \E r \in Reqs :
        /\ handler[r].exit = "closed"
        /\ handler[r].seenHeader
        /\ Len(handler[r].status) = 1
        /\ handler[r].status # <<StatusBadGateway>>

\* C8 (as amended): a handler that receives a header frame with
\* contentLength 0 sets cleanClose and returns in that step, and the only
\* chunk frame the agent emits after such a header is one with an empty body.
C8_ZeroLengthFinalises ==
    /\ [][\A s \in Sessions, r \in Reqs :
            (Delivers(s, r, "resp") /\ Head(a2c[s]).cl = 0) =>
                /\ handler'[r].pc = "done"
                /\ handler'[r].cleanClose
                /\ handler'[r].exit = "zerolength"]_vars
    /\ [](\A id \in Ids :
            LET frames == exec[id].emitted
            IN  (frames # <<>> /\ frames[1].cl = 0) =>
                    \A i \in 2 .. Len(frames) :
                        frames[i].type = "chunk" /\ frames[i].body.len = 0)

\* A handler returned on a zero-length header and the agent has sent the
\* terminating chunk for that request.
C8_Witness ==
    \E r \in Reqs :
        /\ handler[r].exit = "zerolength"
        /\ Len(exec[handler[r].id].emitted) = 2
        /\ exec[handler[r].id].emitted[1].cl = 0

\* C8 (as claimed): after a header frame with contentLength 0 the agent
\* emits no chunk frame for the request.
C8_NoChunkAfterZeroLength ==
    \A id \in Ids :
        LET frames == exec[id].emitted
        IN  (frames # <<>> /\ frames[1].cl = 0) => Len(frames) = 1

\* C9: at most one Cancel is sent per request, only for a request whose
\* client disconnected, and never for a handler that finished on its own.
C9_CancelOnlyOnDisconnect ==
    \A r \in Reqs :
        /\ handler[r].cancels <= 1
        /\ handler[r].cancels = 1 => handler[r].clientGone

\* C10: a client that disconnects after the header frame was relayed and
\* before the terminating chunk leads to the terminating chunk reaching the
\* handler, the handler returning and the id leaving the request table.
C10_ClientCancel ==
    \A r \in Reqs :
        (handler[r].clientGone /\ handler[r].seenHeader /\ handler[r].pc = "wait")
            ~> (/\ handler[r].exit = "emptychunk"
                /\ handler[r].id \notin DOMAIN requests[handler[r].agent])

\* The session holds request id: in its request channel, in its request
\* table, or as a frame it has written to its stream.
HoldsRequest(s, id) ==
    \/ \E i \in 1 .. Len(inHTTPRequest[s]) : inHTTPRequest[s][i].id = id
    \/ id \in DOMAIN requests[s]
    \/ \E i \in 1 .. Len(c2a[s]) : c2a[s][i].type = "req" /\ c2a[s][i].id = id

\* C11: a forwarded request is enqueued, in the step that forwards it, into
\* one session and no other, one registered at that moment under the first
\* label of the caller's common name; at any time only that session holds the
\* request, its identity is that label, and the target of the request, as
\* enqueued and as written to the stream, is that label.
C11_OneSessionOfTheIdentity ==
    /\ [][\A r \in Reqs :
            (handler[r].pc = "new" /\ handler'[r].pc = "wait") =>
                LET h == handler'[r]
                IN  /\ h.agent \in agents[firstLabel(h.cn)]
                    /\ inHTTPRequest'[h.agent] =
                           Append(inHTTPRequest[h.agent],
                                  [id |-> h.id, target |-> firstLabel(h.cn),
                                   out |-> r])
                    /\ \A s \in Sessions \ {h.agent} :
                           inHTTPRequest'[s] = inHTTPRequest[s]]_vars
    /\ [](\A r \in Reqs :
            handler[r].id # NoId =>
                /\ sessionIdentity(handler[r].agent) = firstLabel(handler[r].cn)
                /\ \A s \in Sessions :
                       HoldsRequest(s, handler[r].id) => s = handler[r].agent
                /\ \A s \in Sessions :
                       /\ \A i \in 1 .. Len(inHTTPRequest[s]) :
                              inHTTPRequest[s][i].id = handler[r].id =>
                                  inHTTPRequest[s][i].target = firstLabel(handler[r].cn)
                       /\ \A i \in 1 .. Len(c2a[s]) :
                              (c2a[s][i].type = "req" /\ c2a[s][i].id = handler[r].id) =>
                                  c2a[s][i].target = firstLabel(handler[r].cn))

\* A request went to the second of two sessions registered for its identity,
\* while a session of another identity was registered as well.
C11_Witness ==
    \E r \in Reqs :
        /\ handler[r].agent = "s2"
        /\ agents["A1"] = {"s1", "s2"}
        /\ agents["A2"] = {"s3"}
        /\ HoldsRequest("s2", handler[r].id)

\* C12: a session that reads a hello of a protocolVersion other than the
\* controller's is closed in that step and not registered, a closed session
\* is in no registry list, and every hello an agent of this repository
\* writes carries the controller's protocolVersion.
C12_VersionChecked ==
    /\ [][\A s \in Sessions :
            (/\ sstate[s] = "handshaking"
             /\ a2c[s] # <<>>
             /\ a2c'[s] = Tail(a2c[s])
             /\ Head(a2c[s]).type = "hello"
             /\ Head(a2c[s]).version # CurrentProtocolVersion) =>
                /\ sstate'[s] = "closed"
                /\ agents' = agents]_vars
    /\ [](\A s \in Sessions :
            /\ sstate[s] = "closed" => \A i \in Idents : s \notin agents[i]
            /\ apc[s] # "init" =>
                   \A i \in 1 .. Len(a2c[s]) :
                       a2c[s][i].type = "hello" =>
                           a2c[s][i].version = CurrentProtocolVersion)

ReadsUnknownId(s) ==
    /\ sstate[s] = "live"
    /\ a2c[s] # <<>>
    /\ a2c'[s] = Tail(a2c[s])
    /\ Head(a2c[s]).type \in {"resp", "chunk"}
    /\ Head(a2c[s]).id \notin DOMAIN requests[s]

\* C14: a response frame whose id is not in the session's request table is
\* dropped: no handler receives it and the table is left as it is; an id
\* whose terminating empty chunk a handler has received is in no table, so
\* every later frame bearing it is such a frame.
C14_UnknownIdDropped ==
    /\ [][\A s \in Sessions :
            ReadsUnknownId(s) => (handler' = handler /\ requests' = requests)]_vars
    /\ [](\A r \in Reqs :
            handler[r].exit = "emptychunk" =>
                \A s \in Sessions : handler[r].id \notin DOMAIN requests[s])

\* A live session is about to read a frame bearing the id of a request whose
\* terminating chunk it has accepted.
C14_Witness ==
    \E r \in Reqs, s \in Sessions :
        /\ handler[r].pc = "done"
        /\ handler[r].closed
        /\ handler[r].agent = s
        /\ sstate[s] = "live"
        /\ handler[r].id \notin DOMAIN requests[s]
        /\ a2c[s] # <<>>
        /\ Head(a2c[s]).type \in {"resp", "chunk"}
        /\ Head(a2c[s]).id = handler[r].id

\* C15: the step in which a session's stream fails or closes unregisters the
\* session and closes the sink of every handler waiting on it, and a handler
\* waiting on a closed session eventually returns.
C15_StreamFailureReleasesHandlers ==
    /\ [][\A s \in Sessions :
            (sstate[s] # "closed" /\ sstate'[s] = "closed") =>
                /\ \A i \in Idents : s \notin agents'[i]
                /\ \A r \in Reqs :
                       (handler[r].agent = s /\ handler[r].pc = "wait") =>
                           handler'[r].closed]_vars
    /\ \A r \in Reqs :
           (/\ handler[r].pc = "wait"
            /\ sstate[handler[r].agent] = "closed")
               ~> handler[r].pc = "done"

\* A handler has returned with 502 because the stream of its session closed
\* before any frame of the response.
C15_Witness ==
    \E r \in Reqs :
        /\ handler[r].exit = "closed"
        /\ ~handler[r].seenHeader
        /\ handler[r].status = <<StatusBadGateway>>
        /\ sstate[handler[r].agent] = "closed"
        /\ \A i \in Idents : handler[r].agent \notin agents[i]

\* C20: a tunnel that has sent three pings and read no PingResponse since is
\* terminated before the next tick: no running tunnel has more than
\* MissedPongs pings unanswered.
C20_MissedPongsTerminate ==
    \A s \in Sessions :
        pings[s] > MissedPongs => apc[s] # "running"

\* The frames of request id among the frames of a sequence.
FramesOf(frames, id) ==
    SelectSeq(frames, LAMBDA f : f.type \in {"resp", "chunk"} /\ f.id = id)

C17_SnapshotIsolation ==
    \A id \in CredIds :
        /\ IsPrefix(snap[id], atDispatch[id])
        /\ IsPrefix(used[id], atDispatch[id])
        /\ cpc[id] = "run" => snap[id] = atDispatch[id]

\* A request in flight has read some fields of the credentials it was
\* dispatched with, the shared credentials have been swapped since, and a
\* request dispatched after the swap reads the new ones.
C17_Witness ==
    \E i, j \in CredIds :
        /\ cpc[i] = "run" /\ cpc[j] = "run"
        /\ atDispatch[i] # sa
        /\ used[i] # <<>> /\ Len(used[i]) < Len(Fields)
        /\ atDispatch[j] = sa
        /\ used[j] = sa

\* C18: a process ended by a configuration error has opened no listener (the
\* controller) and has not dialed the controller (the agent).
C18_AbortBeforeListeners ==
    /\ fatal.controller \in ConfigErrors => listeners = {}
    /\ fatal.agent \in ConfigErrors => ~dialed

\* C19: the frame carries each inbound header but Accept-Encoding once, with
\* its values, and nothing else; the outbound request sent carries under each
\* name of the frame the values of the frame.
C19_HeadersForwarded ==
    /\ hpc \in {"framed", "copied", "sent"} =>
          /\ \A name \in HeaderNames \ {"Accept-Encoding"} :
                hIn[name] # <<>> =>
                    \E i \in 1 .. Len(hFrame) : hFrame[i].name = name
          /\ \A i, j \in 1 .. Len(hFrame) :
                /\ hFrame[i].name # "Accept-Encoding"
                /\ hFrame[i].values = hIn[hFrame[i].name]
                /\ hFrame[i].name = hFrame[j].name => i = j
    /\ hpc \in {"copied", "sent"} =>
          \A i \in 1 .. Len(hFrame) : hOut[hFrame[i].name] = hFrame[i].values

\* C21: no executor sends on the dataflow channel once it is closed, so the
\* agent is not ended by the panic of such a send.
C21_NoSendAfterClose ==
    /\ \A s \in Sessions : apc[s] # "panicked"
    /\ \A id \in Ids : exec[id].end # "panic"

\* C22: a handler holds the registry's read lock neither while it reads the
\* request body nor while it waits for the session to take the request, so a
\* writer of the registry can take the lock whenever a handler is there.
C22_NoLockWhileBlocked ==
    \A r \in LockReqs :
        entry[r].pc \in {"body", "send"} => r \notin regReaders /\ RegistryLock

\* The agent's receiver reads a Cancel frame from the stream of s in this step.
ReceivesCancel(s) ==
    /\ c2a[s] # <<>>
    /\ Head(c2a[s]).type = "cancel"
    /\ c2a'[s] = Tail(c2a[s])

\* C23: a Cancel read by the receiver while the request of its id has been
\* received and its executor has not finished cancels the context of that
\* request; no Cancel changes the context of a request of another id.
C23_CancelReachesExecutor ==
    [][\A s \in OwnSessions :
          ReceivesCancel(s) =>
              LET id == Head(c2a[s]).id
              IN  /\ (exec[id].pc \in {"start", "do", "read", "term"}
                        /\ exec[id].sess = s) => exec'[id].cancelled
                  /\ \A other \in Ids \ {id} :
                        exec'[other].cancelled = exec[other].cancelled]_vars

\* C24: the cancel registry of a tunnel holds an id exactly while the
\* executor of that id is between its registration and its return: the id is
\* there when the outbound call starts and gone when the executor is done.
C24_RegistryHoldsRunning ==
    \A s \in Sessions, id \in Ids :
        id \in cancelRegistry[s] <=>
            (exec[id].sess = s /\ exec[id].pc \in {"do", "read", "term"})

\* An executor has returned on a cancelled read and its id is not in the
\* registry.
C24_Witness ==
    \E s \in OwnSessions, id \in Ids :
        /\ exec[id].sess = s
        /\ exec[id].pc = "done"
        /\ exec[id].end = "canceled"
        /\ id \notin cancelRegistry[s]

\* C25: once the handler of a forwarded request has returned, whatever the
\* return, the id of the request is not in the request table of the session
\* it was forwarded to.
C25_ReturnedIdNotInTable ==
    \A r \in Reqs :
        (handler[r].pc = "done" /\ handler[r].agent # NoAgent) =>
            handler[r].id \notin DOMAIN requests[handler[r].agent]

\* C26: while the session of a running tunnel is still handshaking, the frame
\* it will read next is the tunnel's AgentHello, and the tunnel writes an
\* AgentHello as its first frame only; a session that reads another frame
\* than an AgentHello first is closed, and a closed session stays closed.
C26_HelloFirst ==
    /\ [](\A s \in OwnSessions :
            (apc[s] = "running" /\ sstate[s] = "handshaking") =>
                (a2c[s] # <<>> /\ Head(a2c[s]).type = "hello"))
    /\ [][\A s \in OwnSessions :
            (Len(a2c'[s]) = Len(a2c[s]) + 1) =>
                (a2c'[s][Len(a2c'[s])].type = "hello" <=> apc[s] = "init")]_vars
    /\ [][\A s \in Sessions :
            /\ (/\ sstate[s] = "handshaking"
                /\ a2c[s] # <<>>
                /\ a2c'[s] = Tail(a2c[s])
                /\ Head(a2c[s]).type # "hello") => sstate'[s] = "closed"
            /\ sstate[s] = "closed" => sstate'[s] = "closed"]_vars

\* The session of the tunnel is live and the tunnel has written a ping after
\* its hello, and a session whose peer wrote something else first is closed.
C26_Witness ==
    /\ \E s \in OwnSessions :
          sstate[s] = "live" /\ pings[s] > 0 /\ a2c[s] # <<>>
    /\ \E s \in Sessions \ OwnSessions :
          sstate[s] = "closed" /\ agents[sessionIdentity(s)] = {}

\* C27: the handler's step on a header frame leaves in the response header
\* exactly the headers of the frame, whatever was set on it before, and does
\* not change the headers of the inbound request.
C27_DefaultsCleared ==
    [][(hpc = "waiting" /\ hpc' = "responded") =>
          /\ wHeader' = AddHeaders(NoHeaders, hFrame')
          /\ hIn' = hIn]_vars

\* The credentials differ in a field of the list of the refresher's
\* description: username, server URL, token, CA certificate bytes, client
\* certificate leaf.
DiffersAsListed(scf, scf2) ==
    \/ Field(scf, "username") # Field(scf2, "username")
    \/ Field(scf, "serverURL") # Field(scf2, "serverURL")
    \/ Field(scf, "token") # Field(scf2, "token")
    \/ Field(scf, "serverCA") # Field(scf2, "serverCA")
    \/ (Field(scf, "clientCert") = NoClientCert) #
           (Field(scf2, "clientCert") = NoClientCert)
    \/ /\ Field(scf, "clientCert") # NoClientCert
       /\ Field(scf2, "clientCert") # NoClientCert
       /\ Head(Field(scf, "clientCert")) # Head(Field(scf2, "clientCert"))

\* C28 as stated: a round of the refresher replaces the snapshot by the
\* credentials loaded if and only if the two differ in username, server URL,
\* token, CA certificate bytes or client certificate leaf, and the comparison
\* is reflexive and symmetric on the credentials held and loaded.
C28_ReplacedIffListed ==
    [][/\ (sa' # sa \/ saLoaded' # saLoaded) =>
             sa' = IF DiffersAsListed(sa, saLoaded') THEN saLoaded' ELSE sa
       /\ isSameAs(sa, sa)
       /\ isSameAs(saLoaded', saLoaded')
       /\ isSameAs(sa, saLoaded') <=> isSameAs(saLoaded', sa)
      ]_vars

\* C28 amended: a round of the refresher replaces the snapshot by the
\* credentials loaded if and only if the two differ in username, server URL,
\* token, the insecure flag, CA certificate bytes or client certificate leaf;
\* otherwise the snapshot is unchanged; the comparison is reflexive and
\* symmetric on the credentials held and loaded.
C28_ReplacedIffCompared ==
    [][/\ (sa' # sa \/ saLoaded' # saLoaded) =>
             sa' = IF \/ DiffersAsListed(sa, saLoaded')
                      \/ Field(sa, "insecure") # Field(saLoaded', "insecure")
                   THEN saLoaded'
                   ELSE sa
       /\ isSameAs(sa, sa)
       /\ isSameAs(saLoaded', saLoaded')
       /\ isSameAs(sa, saLoaded') <=> isSameAs(saLoaded', sa)
      ]_vars

\* The refresher has replaced the snapshot by credentials differing in the
\* insecure flag, and has then loaded the same with another chain after the
\* leaf and kept the snapshot.
C28_Witness ==
    /\ sa = InsecureCred
    /\ saLoaded = RechainedCred

\* C29: at most one task of a tunnel is inside Send on its stream: the pinger
\* and the forwarder are never inside stream.Send at the same time.
C29_OneSender ==
    \A s \in Sessions : Cardinality(inSend[s]) <= 1

\* C30: whatever frames arrive on a request's response channel, the handler
\* calls w.WriteHeader at most once for the request.
C30_StatusSetOnce ==
    \A r \in Reqs : Len(handler[r].status) <= 1

\* The receiver reads a request of another protocol than "kubernetes".
ReadsUnsupported(s) ==
    /\ c2a[s] # <<>>
    /\ c2a'[s] = Tail(c2a[s])
    /\ Head(c2a[s]).type = "req"
    /\ Head(c2a[s]).protocol # "kubernetes"

====
